---- MODULE Spec2Model ----
(***************************************************************************)
(* bee2, src/src/crypto/belt/belt_dwp.c: the DWP (datawrap) mode of belt.  *)
(*                                                                         *)
(* Every word array of belt_dwp_st is represented by the octets of its     *)
(* words, least significant first, which is its memory image on the        *)
(* little-endian build (OCTET_ORDER == LITTLE_ENDIAN).  The octet array   *)
(* block is represented as it lies in memory.  Two BIG_ENDIAN branches     *)
(* change this representation: beltBlockRevW(s->block), which leaves block *)
(* word-reversed (DWPMulBlock), and the reversal of t[0], t[1] in          *)
(* beltDWPStepV, lines 211-214 (beltDWPStepV_BE).  The one-shot functions  *)
(* are modelled on the little-endian build.                                *)
(*                                                                         *)
(* belt_dwp.c calls into belt_lcl.c, belt_ctr.c, mem.c and blob.c.  Those  *)
(* files are modelled from the specification: the block cipher and the     *)
(* field multiplication are black boxes there, and they are represented by *)
(* small stand-ins with the same signature (a keyed bijection of 16-octet  *)
(* blocks, an octetwise product that is bilinear over XOR).                *)
(***************************************************************************)
EXTENDS Integers, Sequences, FiniteSets, TLC

(***************************************************************************)
(* Octets and blocks                                                       *)
(***************************************************************************)
BlockLen == 16
MacLen == 8
OctetMod == 256
Octet == 0..(OctetMod - 1)

RECURSIVE XorRec(_, _)
XorRec(a, b) ==
  IF a = 0 THEN b
  ELSE IF b = 0 THEN a
  ELSE ((a + b) % 2) + 2 * XorRec(a \div 2, b \div 2)

XorTab == [a \in Octet |-> [b \in Octet |-> XorRec(a, b)]]

XorOctet(a, b) == XorTab[a][b]

\* multiplication of octets as elements of GF(2^8), x^8 + x^4 + x^3 + x + 1
RECURSIVE MulRec(_, _, _)
MulRec(a, b, n) ==
  IF n = 0 \/ b = 0 THEN 0
  ELSE LET a2 == IF 2 * a >= OctetMod THEN XorRec((2 * a) % OctetMod, 27) ELSE 2 * a
           rest == MulRec(a2, b \div 2, n - 1)
       IN IF b % 2 = 1 THEN XorRec(a, rest) ELSE rest

MulTab == [a \in Octet |-> [b \in Octet |-> MulRec(a, b, 8)]]

ZeroBlock == [i \in 1..BlockLen |-> 0]

\* memSetZero / memCopy on a sequence: octets from..(from+n-1) are replaced
memSetZero(buf, from, n) ==
  [i \in 1..Len(buf) |-> IF i >= from /\ i < from + n THEN 0 ELSE buf[i]]

memCopy(buf, from, src, n) ==
  [i \in 1..Len(buf) |-> IF i >= from /\ i < from + n THEN src[i - from + 1] ELSE buf[i]]

\* memEq(a, b, n): the first n octets agree
memEq(a, b, n) == \A i \in 1..n : a[i] = b[i]

\* beltBlockXor2(dest, src): dest ^= src
beltBlockXor2(a, b) == [i \in 1..BlockLen |-> XorOctet(a[i], b[i])]

\* beltPolyMul(c, a, b, stack): c = a * b
beltPolyMul(a, b) == [i \in 1..BlockLen |-> MulTab[a[i]][b[i]]]

\* beltH(): the first 16 octets of the belt H table
beltH == <<177, 148, 186, 200, 10, 8, 245, 59, 54, 109, 0, 142, 88, 74, 93, 228>>

\* beltKeyExpand2: a key of 16, 24 or 32 octets becomes 32 octets
beltKeyExpand(key, len) ==
  [i \in 1..32 |->
     IF i <= len THEN key[i]
     ELSE IF len = 16 THEN key[i - 16]
     ELSE IF i <= 28 THEN XorOctet(XorOctet(key[i - 24], key[i - 20]), key[i - 16])
     ELSE XorOctet(XorOctet(key[i - 16], key[i - 12]), key[i - 8])]

\* beltBlockEncr2(block, key): a keyed bijection of blocks
beltBlockEncr(block, K) ==
  [i \in 1..BlockLen |->
     (block[((i + 4) % BlockLen) + 1] + K[i] + 3 * K[BlockLen + i] + i) % OctetMod]

\* beltBlockDecr2(block, key): the inverse of beltBlockEncr
beltBlockDecr(block, K) ==
  [j \in 1..BlockLen |->
     LET i == ((j + 10) % BlockLen) + 1
     IN (block[i] + 5 * OctetMod - K[i] - 3 * K[BlockLen + i] - i) % OctetMod]

\* the counter is a big-endian integer, incremented modulo 2^128
RECURSIVE beltBlockInc(_, _)
beltBlockInc(block, i) ==
  IF i = 0 THEN block
  ELSE IF block[i] = OctetMod - 1
       THEN beltBlockInc([block EXCEPT ![i] = 0], i - 1)
       ELSE [block EXCEPT ![i] = @ + 1]

(***************************************************************************)
(* belt_ctr_st and the CTR functions DWP delegates to                      *)
(***************************************************************************)
\* beltCTRStart(state, key, len, iv): schedules the key and initializes the
\* counter from iv (belt_ctr.c is outside the fragment; this is the
\* specification's "initializes counter from iv"); the keystream block is
\* not written
beltCTRStart(c, key, len, iv) ==
  [key |-> beltKeyExpand(key, len), ctr |-> iv, block |-> c.block, reserved |-> 0]

RECURSIVE beltCTRBlocks(_, _)
beltCTRBlocks(buf, c) ==
  LET count == Len(buf)
      ctr1 == beltBlockInc(c.ctr, BlockLen)
      ks == beltBlockEncr(ctr1, c.key)
  IN IF count >= BlockLen
     THEN LET r == beltCTRBlocks(SubSeq(buf, BlockLen + 1, count),
                                 [c EXCEPT !.ctr = ctr1, !.block = ks])
          IN [buf |-> beltBlockXor2(SubSeq(buf, 1, BlockLen), ks) \o r.buf, ctr |-> r.ctr]
     ELSE IF count > 0
     THEN [buf |-> [k \in 1..count |-> XorOctet(buf[k], ks[k])],
           ctr |-> [c EXCEPT !.ctr = ctr1, !.block = ks, !.reserved = BlockLen - count]]
     ELSE [buf |-> buf, ctr |-> c]

\* beltCTRStepE(buf, count, state): XOR the keystream into buf
beltCTRStepE(buf, c) ==
  LET count == Len(buf)
      gamma(k) == c.block[BlockLen - c.reserved + k]
  IN IF c.reserved # 0 /\ c.reserved >= count
     THEN [buf |-> [k \in 1..count |-> XorOctet(buf[k], gamma(k))],
           ctr |-> [c EXCEPT !.reserved = @ - count]]
     ELSE LET head == [k \in 1..c.reserved |-> XorOctet(buf[k], gamma(k))]
              r == beltCTRBlocks(SubSeq(buf, c.reserved + 1, count),
                                 [c EXCEPT !.reserved = 0])
          IN [buf |-> head \o r.buf, ctr |-> r.ctr]

\* beltCTRStepD is beltCTRStepE
beltCTRStepD(buf, c) == beltCTRStepE(buf, c)

(***************************************************************************)
(* State of the model                                                      *)
(*   pc       position in beltDWPWrap / beltDWPUnwrap, or in the client of *)
(*            the step functions                                           *)
(*   args     arguments of the running call; for the client of the step    *)
(*            functions, the build of the library: order is OCTET_ORDER,   *)
(*            asserts tells whether ASSERT is compiled in                  *)
(*   mem      memory of the caller (src1, src2, dest live here)            *)
(*   macbuf   the 8 octets mac points to                                   *)
(*   state    contents of the belt_dwp_st storage                          *)
(*   blob     "none", "live" or "closed": the blob behind state            *)
(*   ret      err_t returned                                               *)
(* History variables (not program state):                                  *)
(*   mem0, mac0   mem and macbuf when the call was entered                 *)
(*   orig     payload given to beltDWPWrap before a round trip             *)
(*   trace    calls made by the running one-shot function, in order        *)
(*   hin, ain octets passed to StepI / StepA since beltDWPStart            *)
(*   out      octets returned by StepE so far                              *)
(*   fin      StepG or StepV has run since beltDWPStart                    *)
(*   asserted an ASSERT has failed and aborted the program                 *)
(*   ncalls   number of step calls made by the client                      *)
(***************************************************************************)
VARIABLES pc, args, mem, macbuf, state, blob, ret,
          mem0, mac0, orig, trace, hin, ain, out, fin, asserted, ncalls

vars == <<pc, args, mem, macbuf, state, blob, ret,
          mem0, mac0, orig, trace, hin, ain, out, fin, asserted, ncalls>>

clientVars == <<hin, ain, out, fin, asserted, ncalls>>

(***************************************************************************)
(* belt_dwp_st                                                             *)
(*   ctr    state of CTR (scheduled key, counter, keystream block,         *)
(*          reserved)                                                      *)
(*   r, t   128-bit words, as 16 octets                                    *)
(*   len    bits of open data (lo) and of critical data (hi)               *)
(*   block, filled   the partial block                                     *)
(* The fields mac and stack are not read or written by these functions.    *)
(* absorbed is a history field, not a member of the struct: the blocks     *)
(* that were XORed into t (each followed by beltPolyMul) since the last    *)
(* beltDWPStart, in order.  No function reads it.                          *)
(* order is not a member either: it is OCTET_ORDER of the build whose code *)
(* works on the storage, read where the source has #if on it.              *)
(***************************************************************************)
ZeroKey == [i \in 1..32 |-> 0]

\* octets of a machine word.  The big-endian build has B_PER_W == 32: with
\* another word size line 192 (s->s) does not compile.
WordOctets == 4

\* beltBlockRevW(block): the octets of every word of the block are reversed
beltBlockRevW(block) ==
  [i \in 1..BlockLen |->
     block[((i - 1) \div WordOctets) * WordOctets + WordOctets - ((i - 1) % WordOctets)]]

\* storage as blobCreate returns it and as blobClose leaves it: all zero
ZeroState ==
  [ctr |-> [key |-> ZeroKey, ctr |-> ZeroBlock, block |-> ZeroBlock, reserved |-> 0],
   r |-> ZeroBlock, t |-> ZeroBlock, len |-> [lo |-> 0, hi |-> 0],
   block |-> ZeroBlock, filled |-> 0, absorbed |-> <<>>, order |-> "LITTLE_ENDIAN"]

\* zeroed storage used by a build of the given octet order
Storage(order) == [ZeroState EXCEPT !.order = order]

\* beltHalfBlockIsZero(s->len + W_OF_B(64))
beltHalfBlockIsZero(half) == half = 0

\* beltHalfBlockAddBitSizeW(half, count): half += 8 * count
beltHalfBlockAddBitSizeW(half, count) == half + 8 * count

\* the 8 octets of a half of len, least significant first
RECURSIVE HalfOctets(_, _)
HalfOctets(v, n) ==
  IF n = 0 THEN <<>> ELSE <<v % OctetMod>> \o HalfOctets(v \div OctetMod, n - 1)

\* s->len as a block
LenBlock(len) == HalfOctets(len.lo, 8) \o HalfOctets(len.hi, 8)

\* mutant: filled is not reset
beltDWPStart_KeepFilled(s, key, len, iv) ==
  LET c == beltCTRStart(s.ctr, key, len, iv)
  IN [s EXCEPT !.ctr = c,
               !.r = beltBlockEncr(c.ctr, c.key),
               !.t = beltH,
               !.len = [lo |-> 0, hi |-> 0],
               !.absorbed = <<>>]

\* beltDWPStart(state, key, len, iv)
beltDWPStart(s, key, len, iv) ==
  LET c == beltCTRStart(s.ctr, key, len, iv)
  IN [s EXCEPT !.ctr = c,
               !.r = beltBlockEncr(c.ctr, c.key),
               !.t = beltH,
               !.len = [lo |-> 0, hi |-> 0],
               !.filled = 0,
               !.absorbed = <<>>]

\* mutant: the encryption drops the partial block of the hash
beltDWPStepE_ResetFilled(buf, s) ==
  LET e == beltCTRStepE(buf, s.ctr)
  IN [buf |-> e.buf, state |-> [s EXCEPT !.ctr = e.ctr, !.filled = 0]]

\* beltDWPStepE(buf, count, state)
beltDWPStepE(buf, s) ==
  LET e == beltCTRStepE(buf, s.ctr)
  IN [buf |-> e.buf, state |-> [s EXCEPT !.ctr = e.ctr]]

\* #if (OCTET_ORDER == BIG_ENDIAN) beltBlockRevW(s->block);
\* beltBlockXor2(s->t, s->block); beltPolyMul(s->t, s->t, s->r, s->stack).
\* The words XORed into t have the octets of s->block as their values on
\* both builds; on the big-endian build block is left word-reversed.
DWPMulBlock(s) ==
  [s EXCEPT !.t = beltPolyMul(beltBlockXor2(s.t, s.block), s.r),
            !.block = IF s.order = "BIG_ENDIAN" THEN beltBlockRevW(@) ELSE @,
            !.absorbed = Append(@, s.block)]

\* the loop over full blocks and the trailing partial block
RECURSIVE DWPFullBlocks(_, _)
DWPFullBlocks(buf, s) ==
  LET count == Len(buf)
  IN IF count >= BlockLen
     THEN DWPFullBlocks(SubSeq(buf, BlockLen + 1, count),
                        DWPMulBlock([s EXCEPT !.block = SubSeq(buf, 1, BlockLen)]))
     ELSE IF count # 0
     THEN [s EXCEPT !.block = memCopy(s.block, 1, buf, count), !.filled = count]
     ELSE s

\* mutant: filled is not reset when the buffered block is completed
DWPUpdate_NoReset(buf, s) ==
  LET count == Len(buf)
  IN IF s.filled # 0
     THEN IF count < BlockLen - s.filled
          THEN [s EXCEPT !.block = memCopy(s.block, s.filled + 1, buf, count),
                         !.filled = @ + count]
          ELSE LET n == BlockLen - s.filled
                   s1 == DWPMulBlock([s EXCEPT !.block = memCopy(s.block, s.filled + 1, buf, n)])
               IN DWPFullBlocks(SubSeq(buf, n + 1, count), s1)
     ELSE DWPFullBlocks(buf, s)

\* "есть накопленные данные?" and what follows, the same text in StepI and StepA
DWPUpdate(buf, s) ==
  LET count == Len(buf)
  IN IF s.filled # 0
     THEN IF count < BlockLen - s.filled
          THEN [s EXCEPT !.block = memCopy(s.block, s.filled + 1, buf, count),
                         !.filled = @ + count]
          ELSE LET n == BlockLen - s.filled
                   s1 == DWPMulBlock([s EXCEPT !.block = memCopy(s.block, s.filled + 1, buf, n)])
               IN DWPFullBlocks(SubSeq(buf, n + 1, count), [s1 EXCEPT !.filled = 0])
     ELSE DWPFullBlocks(buf, s)

\* mutant: the assertion without "count == 0 ||"
beltDWPStepI_Assert_Strict(buf, s) == beltHalfBlockIsZero(s.len.hi)

\* ASSERT(count == 0 || beltHalfBlockIsZero(s->len + W_OF_B(64)))
beltDWPStepI_Assert(buf, s) == Len(buf) = 0 \/ beltHalfBlockIsZero(s.len.hi)

\* beltDWPStepI(buf, count, state)
beltDWPStepI(buf, s) ==
  DWPUpdate(buf, [s EXCEPT !.len.lo = beltHalfBlockAddBitSizeW(@, Len(buf))])

\* zero-pad the partial block and process it
DWPPad(s) ==
  [DWPMulBlock([s EXCEPT !.block = memSetZero(s.block, s.filled + 1, BlockLen - s.filled)])
     EXCEPT !.filled = 0]

\* mutant: the pad does not test count, an empty call ends the header phase
beltDWPStepA_PadEmpty(buf, s) ==
  LET count == Len(buf)
      s1 == IF beltHalfBlockIsZero(s.len.hi) /\ s.filled # 0 THEN DWPPad(s) ELSE s
  IN DWPUpdate(buf, [s1 EXCEPT !.len.hi = beltHalfBlockAddBitSizeW(@, count)])

\* mutant: the count is added to the low half of len ("+ W_OF_B(64)" missing)
beltDWPStepA_LenLo(buf, s) ==
  LET count == Len(buf)
      s1 == IF count # 0 /\ beltHalfBlockIsZero(s.len.hi) /\ s.filled # 0
            THEN DWPPad(s) ELSE s
  IN DWPUpdate(buf, [s1 EXCEPT !.len.lo = beltHalfBlockAddBitSizeW(@, count)])

\* mutant: the partial header block is not padded at the phase boundary
beltDWPStepA_NoPad(buf, s) ==
  DWPUpdate(buf, [s EXCEPT !.len.hi = beltHalfBlockAddBitSizeW(@, Len(buf))])

\* mutant: the partial block is padded at every non-empty call, not at the first
beltDWPStepA_PadAlways(buf, s) ==
  LET count == Len(buf)
      s1 == IF count # 0 /\ s.filled # 0 THEN DWPPad(s) ELSE s
  IN DWPUpdate(buf, [s1 EXCEPT !.len.hi = beltHalfBlockAddBitSizeW(@, count)])

\* beltDWPStepA(buf, count, state)
beltDWPStepA(buf, s) ==
  LET count == Len(buf)
      s1 == IF count # 0 /\ beltHalfBlockIsZero(s.len.hi) /\ s.filled # 0
            THEN DWPPad(s) ELSE s
  IN DWPUpdate(buf, [s1 EXCEPT !.len.hi = beltHalfBlockAddBitSizeW(@, count)])

\* mutant: the octets are decrypted but the CTR state is not advanced
beltDWPStepD_NoAdvance(buf, s) ==
  [buf |-> beltCTRStepD(buf, s.ctr).buf, state |-> s]

\* beltDWPStepD(buf, count, state)
beltDWPStepD(buf, s) ==
  LET d == beltCTRStepD(buf, s.ctr)
  IN [buf |-> d.buf, state |-> [s EXCEPT !.ctr = d.ctr]]

\* mutant: the length block is not absorbed
beltDWPStepG_internal_NoLen(s) ==
  LET s1 == IF s.filled # 0 THEN DWPPad(s) ELSE s
      t1 == beltPolyMul(s1.t, s1.r)
  IN [s1 EXCEPT !.t = beltBlockEncr(t1, s1.ctr.key)]

\* mutant: finalization resets the length counters
beltDWPStepG_internal_ClearLen(s) ==
  LET s1 == IF s.filled # 0 THEN DWPPad(s) ELSE s
      t1 == beltPolyMul(beltBlockXor2(s1.t, LenBlock(s1.len)), s1.r)
  IN [s1 EXCEPT !.t = beltBlockEncr(t1, s1.ctr.key), !.len = [lo |-> 0, hi |-> 0],
                !.absorbed = Append(@, LenBlock(s1.len))]

\* mutant: finalization wipes the scheduled key and r
beltDWPStepG_internal_Wipe(s) ==
  LET s1 == IF s.filled # 0 THEN DWPPad(s) ELSE s
      t1 == beltPolyMul(beltBlockXor2(s1.t, LenBlock(s1.len)), s1.r)
  IN [s1 EXCEPT !.t = beltBlockEncr(t1, s1.ctr.key), !.r = ZeroBlock, !.ctr.key = ZeroKey,
                !.absorbed = Append(@, LenBlock(s1.len))]

\* mutant: the length block holds the total bit count in its low half
beltDWPStepG_internal_OneLen(s) ==
  LET s1 == IF s.filled # 0 THEN DWPPad(s) ELSE s
      one == LenBlock([lo |-> s1.len.lo + s1.len.hi, hi |-> 0])
      t1 == beltPolyMul(beltBlockXor2(s1.t, one), s1.r)
  IN [s1 EXCEPT !.t = beltBlockEncr(t1, s1.ctr.key),
                !.absorbed = Append(@, one)]

\* beltDWPStepG_internal(state)
beltDWPStepG_internal(s) ==
  LET s1 == IF s.filled # 0 THEN DWPPad(s) ELSE s
      t1 == beltPolyMul(beltBlockXor2(s1.t, LenBlock(s1.len)), s1.r)
  IN [s1 EXCEPT !.t = beltBlockEncr(t1, s1.ctr.key),
                !.absorbed = Append(@, LenBlock(s1.len))]

\* beltDWPStepG(mac, state): u32To(mac, 8, s->t)
beltDWPStepG(s) ==
  LET s1 == beltDWPStepG_internal(s)
  IN [mac |-> SubSeq(s1.t, 1, MacLen), state |-> s1]

\* mutant: the little-endian build reverses t[0] and t[1] too
beltDWPStepV_Rev(mac, s) ==
  LET s1 == beltDWPStepG_internal(s)
      t1 == [i \in 1..BlockLen |->
               IF i <= 4 THEN s1.t[5 - i] ELSE IF i <= 8 THEN s1.t[13 - i] ELSE s1.t[i]]
  IN [ok |-> memEq(mac, t1, MacLen), state |-> [s1 EXCEPT !.t = t1]]

\* mutant: only the first half of mac is compared
beltDWPStepV_Short(mac, s) ==
  LET s1 == beltDWPStepG_internal(s)
  IN [ok |-> memEq(mac, s1.t, MacLen \div 2), state |-> s1]

\* mutant: mac is compared with t before t is finalized
beltDWPStepV_NoFinal(mac, s) == [ok |-> memEq(mac, s.t, MacLen), state |-> s]

\* beltDWPStepV(mac, state): memEq(mac, s->t, 8)
beltDWPStepV(mac, s) ==
  LET s1 == beltDWPStepG_internal(s)
  IN [ok |-> memEq(mac, s1.t, MacLen), state |-> s1]

\* u32Rev applied to the words t[0] and t[1] (32-bit words)
u32RevT01(t) ==
  [i \in 1..BlockLen |->
     IF i <= 4 THEN t[5 - i] ELSE IF i <= 8 THEN t[13 - i] ELSE t[i]]

\* beltDWPStepV(mac, state) on the big-endian build: t[0] and t[1] are
\* byte-reversed in place, which makes the memory image of t the octets
\* that memEq compares with mac
beltDWPStepV_BE(mac, s) ==
  LET s1 == beltDWPStepG_internal(s)
  IN [ok |-> memEq(mac, s1.t, MacLen), state |-> [s1 EXCEPT !.t = u32RevT01(@)]]

(***************************************************************************)
(* The one-shot functions: lines 237-242 and 267-276 as functions of the   *)
(* contents of the buffers                                                 *)
(***************************************************************************)
\* Start, StepI(src2), StepE(src1), StepA(dest), StepG(mac) on disjoint buffers
DWPWrapData(src1, src2, key, len, iv) ==
  LET s0 == beltDWPStart(ZeroState, key, len, iv)
      s1 == beltDWPStepI(src2, s0)
      e == beltDWPStepE(src1, s1)
      s3 == beltDWPStepA(e.buf, e.state)
      g == beltDWPStepG(s3)
  IN [dest |-> e.buf, mac |-> g.mac]

\* the tag beltDWPUnwrap compares mac with: Start, StepI(src2), StepA(src1)
DWPTagData(src1, src2, key, len, iv) ==
  beltDWPStepG(beltDWPStepA(src1, beltDWPStepI(src2,
      beltDWPStart(ZeroState, key, len, iv)))).mac

(***************************************************************************)
(* Test data                                                               *)
(***************************************************************************)
\* n octets; seed 0 gives zeros
Data(n, seed) == [i \in 1..n |-> (seed * (29 * i + 7)) % OctetMod]

TestKey(len) == [i \in 1..len |-> (233 + 31 * i + len) % OctetMod]

TestIv(seed) == [i \in 1..BlockLen |-> (190 + seed + 51 * i) % OctetMod]

\* a mac that differs from mac in its first octet
OtherMac(mac) == [mac EXCEPT ![1] = (@ + 1) % OctetMod]

(***************************************************************************)
(* Memory of the caller of beltDWPWrap / beltDWPUnwrap                     *)
(***************************************************************************)
\* longest src1 / src2 of the long-message runs
MaxCount == 17
\* addresses and counts of the overlapping runs are 0..AliasSpan
AliasSpan == 2

MemSize == 3 * MaxCount + AliasSpan
Addr == 0..(MemSize - 1)
Null == 0 - 1

InitMem == [a \in Addr |-> (53 * a + 17) % OctetMod]

\* the count octets at address a
Rd(m, a, count) == [i \in 1..count |-> m[a + i - 1]]

\* memory with buf stored at address a
Wr(m, a, buf) ==
  [x \in Addr |-> IF x >= a /\ x < a + Len(buf) THEN buf[x - a + 1] ELSE m[x]]

\* memMove(dest, src, count): the regions may overlap
memMove(m, dest, src, count) == Wr(m, dest, Rd(m, src, count))

\* memIsValid(buf, count)
memIsValid(buf, count) == count = 0 \/ buf # Null

(***************************************************************************)
(* beltDWPWrap and beltDWPUnwrap, one action per statement                 *)
(***************************************************************************)
\* mutant: mac is not validated
WrapBadInput_NoMac(a) ==
  \/ (a.len # 16 /\ a.len # 24 /\ a.len # 32)
  \/ ~memIsValid(a.src1, a.count1)
  \/ ~memIsValid(a.src2, a.count2)
  \/ ~memIsValid(a.keyp, a.len)
  \/ ~memIsValid(a.ivp, BlockLen)
  \/ ~memIsValid(a.dest, a.count1)

\* lines 224-230
WrapBadInput(a) ==
  \/ (a.len # 16 /\ a.len # 24 /\ a.len # 32)
  \/ ~memIsValid(a.src1, a.count1)
  \/ ~memIsValid(a.src2, a.count2)
  \/ ~memIsValid(a.keyp, a.len)
  \/ ~memIsValid(a.ivp, BlockLen)
  \/ ~memIsValid(a.dest, a.count1)
  \/ ~memIsValid(a.macp, MacLen)

\* mutant: dest overlapping src1 or src2 is rejected as well
UnwrapBadInput_Disjoint(a) ==
  \/ (a.len # 16 /\ a.len # 24 /\ a.len # 32)
  \/ ~memIsValid(a.src1, a.count1)
  \/ ~memIsValid(a.src2, a.count2)
  \/ ~memIsValid(a.macp, MacLen)
  \/ ~memIsValid(a.keyp, a.len)
  \/ ~memIsValid(a.ivp, BlockLen)
  \/ ~memIsValid(a.dest, a.count1)
  \/ (a.count1 > 0 /\ a.dest < a.src1 + a.count1 /\ a.src1 < a.dest + a.count1)
  \/ (a.count1 > 0 /\ a.count2 > 0 /\ a.dest < a.src2 + a.count2 /\ a.src2 < a.dest + a.count1)

\* lines 254-260
UnwrapBadInput(a) ==
  \/ (a.len # 16 /\ a.len # 24 /\ a.len # 32)
  \/ ~memIsValid(a.src1, a.count1)
  \/ ~memIsValid(a.src2, a.count2)
  \/ ~memIsValid(a.macp, MacLen)
  \/ ~memIsValid(a.keyp, a.len)
  \/ ~memIsValid(a.ivp, BlockLen)
  \/ ~memIsValid(a.dest, a.count1)

\* mutant: src1 is moved to dest before the header is absorbed
WrapNext_MoveFirst(p, ok) ==
  CASE p = "W_check" -> IF ok THEN "W_create" ELSE "done"
    [] p = "W_create" -> IF ok THEN "W_start" ELSE "done"
    [] p = "W_start" -> "W_move"
    [] p = "W_move" -> "W_stepI"
    [] p = "W_stepI" -> "W_stepE"
    [] p = "W_stepE" -> "W_stepA"
    [] p = "W_stepA" -> "W_stepG"
    [] p = "W_stepG" -> "W_close"
    [] p = "W_close" -> "done"

\* the statement that follows statement p of beltDWPWrap; ok: the test passed
WrapNext(p, ok) ==
  CASE p = "W_check" -> IF ok THEN "W_create" ELSE "done"
    [] p = "W_create" -> IF ok THEN "W_start" ELSE "done"
    [] p = "W_start" -> "W_stepI"
    [] p = "W_stepI" -> "W_move"
    [] p = "W_move" -> "W_stepE"
    [] p = "W_stepE" -> "W_stepA"
    [] p = "W_stepA" -> "W_stepG"
    [] p = "W_stepG" -> "W_close"
    [] p = "W_close" -> "done"

\* mutant: dest is written and decrypted before mac is verified
UnwrapNext_DecryptFirst(p, ok) ==
  CASE p = "U_check" -> IF ok THEN "U_create" ELSE "done"
    [] p = "U_create" -> IF ok THEN "U_start" ELSE "done"
    [] p = "U_start" -> "U_stepI"
    [] p = "U_stepI" -> "U_stepA"
    [] p = "U_stepA" -> "U_move"
    [] p = "U_move" -> "U_stepD"
    [] p = "U_stepD" -> "U_stepV"
    [] p = "U_stepV" -> IF ok THEN "U_close" ELSE "U_badmac"
    [] p = "U_badmac" -> "done"
    [] p = "U_close" -> "done"

\* the statement that follows statement p of beltDWPUnwrap
UnwrapNext(p, ok) ==
  CASE p = "U_check" -> IF ok THEN "U_create" ELSE "done"
    [] p = "U_create" -> IF ok THEN "U_start" ELSE "done"
    [] p = "U_start" -> "U_stepI"
    [] p = "U_stepI" -> "U_stepA"
    [] p = "U_stepA" -> "U_stepV"
    [] p = "U_stepV" -> IF ok THEN "U_move" ELSE "U_badmac"
    [] p = "U_badmac" -> "done"
    [] p = "U_move" -> "U_stepD"
    [] p = "U_stepD" -> "U_close"
    [] p = "U_close" -> "done"

\* blobCreate(beltDWP_keep()): zeroed storage, or 0 when memory is exhausted
blobCreate(ok) == IF ok THEN "live" ELSE "none"

\* blobClose(state): the storage is wiped and released
blobClose(s) == ZeroState

W_check ==
  /\ pc = "W_check"
  /\ pc' = WrapNext(pc, ~WrapBadInput(args))
  /\ ret' = IF WrapBadInput(args) THEN "ERR_BAD_INPUT" ELSE ret
  /\ UNCHANGED <<args, mem, macbuf, state, blob, mem0, mac0, orig, trace, clientVars>>

W_create ==
  /\ pc = "W_create"
  /\ \E ok \in BOOLEAN :
       /\ blob' = blobCreate(ok)
       /\ pc' = WrapNext(pc, ok)
       /\ ret' = IF ok THEN ret ELSE "ERR_OUTOFMEMORY"
       /\ trace' = IF ok THEN Append(trace, "blobCreate") ELSE trace
  /\ state' = ZeroState
  /\ UNCHANGED <<args, mem, macbuf, mem0, mac0, orig, clientVars>>

W_start ==
  /\ pc = "W_start"
  /\ state' = beltDWPStart(state, args.key, args.len, args.iv)
  /\ pc' = WrapNext(pc, TRUE)
  /\ trace' = Append(trace, "Start")
  /\ UNCHANGED <<args, mem, macbuf, blob, ret, mem0, mac0, orig, clientVars>>

W_stepI ==
  /\ pc = "W_stepI"
  /\ beltDWPStepI_Assert(Rd(mem, args.src2, args.count2), state)
  /\ state' = beltDWPStepI(Rd(mem, args.src2, args.count2), state)
  /\ pc' = WrapNext(pc, TRUE)
  /\ trace' = Append(trace, "StepI(src2)")
  /\ UNCHANGED <<args, mem, macbuf, blob, ret, mem0, mac0, orig, clientVars>>

W_move ==
  /\ pc = "W_move"
  /\ mem' = memMove(mem, args.dest, args.src1, args.count1)
  /\ pc' = WrapNext(pc, TRUE)
  /\ trace' = Append(trace, "memMove(dest,src1)")
  /\ UNCHANGED <<args, macbuf, state, blob, ret, mem0, mac0, orig, clientVars>>

W_stepE ==
  /\ pc = "W_stepE"
  /\ LET e == beltDWPStepE(Rd(mem, args.dest, args.count1), state)
     IN /\ mem' = Wr(mem, args.dest, e.buf)
        /\ state' = e.state
  /\ pc' = WrapNext(pc, TRUE)
  /\ trace' = Append(trace, "StepE(dest)")
  /\ UNCHANGED <<args, macbuf, blob, ret, mem0, mac0, orig, clientVars>>

W_stepA ==
  /\ pc = "W_stepA"
  /\ state' = beltDWPStepA(Rd(mem, args.dest, args.count1), state)
  /\ pc' = WrapNext(pc, TRUE)
  /\ trace' = Append(trace, "StepA(dest)")
  /\ UNCHANGED <<args, mem, macbuf, blob, ret, mem0, mac0, orig, clientVars>>

W_stepG ==
  /\ pc = "W_stepG"
  /\ LET g == beltDWPStepG(state)
     IN /\ macbuf' = g.mac
        /\ state' = g.state
  /\ pc' = WrapNext(pc, TRUE)
  /\ trace' = Append(trace, "StepG(mac)")
  /\ UNCHANGED <<args, mem, blob, ret, mem0, mac0, orig, clientVars>>

W_close ==
  /\ pc = "W_close"
  /\ state' = blobClose(state)
  /\ blob' = "closed"
  /\ ret' = "ERR_OK"
  /\ pc' = WrapNext(pc, TRUE)
  /\ trace' = Append(trace, "blobClose")
  /\ UNCHANGED <<args, mem, macbuf, mem0, mac0, orig, clientVars>>

U_check ==
  /\ pc = "U_check"
  /\ pc' = UnwrapNext(pc, ~UnwrapBadInput(args))
  /\ ret' = IF UnwrapBadInput(args) THEN "ERR_BAD_INPUT" ELSE ret
  /\ UNCHANGED <<args, mem, macbuf, state, blob, mem0, mac0, orig, trace, clientVars>>

U_create ==
  /\ pc = "U_create"
  /\ \E ok \in BOOLEAN :
       /\ blob' = blobCreate(ok)
       /\ pc' = UnwrapNext(pc, ok)
       /\ ret' = IF ok THEN ret ELSE "ERR_OUTOFMEMORY"
       /\ trace' = IF ok THEN Append(trace, "blobCreate") ELSE trace
  /\ state' = ZeroState
  /\ UNCHANGED <<args, mem, macbuf, mem0, mac0, orig, clientVars>>

U_start ==
  /\ pc = "U_start"
  /\ state' = beltDWPStart(state, args.key, args.len, args.iv)
  /\ pc' = UnwrapNext(pc, TRUE)
  /\ trace' = Append(trace, "Start")
  /\ UNCHANGED <<args, mem, macbuf, blob, ret, mem0, mac0, orig, clientVars>>

U_stepI ==
  /\ pc = "U_stepI"
  /\ beltDWPStepI_Assert(Rd(mem, args.src2, args.count2), state)
  /\ state' = beltDWPStepI(Rd(mem, args.src2, args.count2), state)
  /\ pc' = UnwrapNext(pc, TRUE)
  /\ trace' = Append(trace, "StepI(src2)")
  /\ UNCHANGED <<args, mem, macbuf, blob, ret, mem0, mac0, orig, clientVars>>

U_stepA ==
  /\ pc = "U_stepA"
  /\ state' = beltDWPStepA(Rd(mem, args.src1, args.count1), state)
  /\ pc' = UnwrapNext(pc, TRUE)
  /\ trace' = Append(trace, "StepA(src1)")
  /\ UNCHANGED <<args, mem, macbuf, blob, ret, mem0, mac0, orig, clientVars>>

U_stepV ==
  /\ pc = "U_stepV"
  /\ LET v == beltDWPStepV(macbuf, state)
     IN /\ state' = v.state
        /\ pc' = UnwrapNext(pc, v.ok)
        /\ trace' = Append(trace, IF v.ok THEN "StepV(mac)=TRUE" ELSE "StepV(mac)=FALSE")
  /\ UNCHANGED <<args, mem, macbuf, blob, ret, mem0, mac0, orig, clientVars>>

\* mutant: the ERR_BAD_MAC path returns without blobClose
U_badmac_Leak ==
  /\ pc = "U_badmac"
  /\ ret' = "ERR_BAD_MAC"
  /\ pc' = UnwrapNext(pc, TRUE)
  /\ UNCHANGED <<args, mem, macbuf, state, blob, trace, mem0, mac0, orig, clientVars>>

U_badmac ==
  /\ pc = "U_badmac"
  /\ state' = blobClose(state)
  /\ blob' = "closed"
  /\ ret' = "ERR_BAD_MAC"
  /\ pc' = UnwrapNext(pc, TRUE)
  /\ trace' = Append(trace, "blobClose")
  /\ UNCHANGED <<args, mem, macbuf, mem0, mac0, orig, clientVars>>

U_move ==
  /\ pc = "U_move"
  /\ mem' = memMove(mem, args.dest, args.src1, args.count1)
  /\ pc' = UnwrapNext(pc, TRUE)
  /\ trace' = Append(trace, "memMove(dest,src1)")
  /\ UNCHANGED <<args, macbuf, state, blob, ret, mem0, mac0, orig, clientVars>>

U_stepD ==
  /\ pc = "U_stepD"
  /\ LET d == beltDWPStepD(Rd(mem, args.dest, args.count1), state)
     IN /\ mem' = Wr(mem, args.dest, d.buf)
        /\ state' = d.state
  /\ pc' = UnwrapNext(pc, TRUE)
  /\ trace' = Append(trace, "StepD(dest)")
  /\ UNCHANGED <<args, macbuf, blob, ret, mem0, mac0, orig, clientVars>>

U_close ==
  /\ pc = "U_close"
  /\ state' = blobClose(state)
  /\ blob' = "closed"
  /\ ret' = "ERR_OK"
  /\ pc' = UnwrapNext(pc, TRUE)
  /\ trace' = Append(trace, "blobClose")
  /\ UNCHANGED <<args, mem, macbuf, mem0, mac0, orig, clientVars>>

(***************************************************************************)
(* Calls of the one-shot functions                                         *)
(***************************************************************************)
Fns == {"Wrap", "Unwrap"}
GoodLens == {16, 24, 32}
BadLens == {0, 8, 17, 33}

MkArgs(fn, family, dest, src1, count1, src2, count2, macp, keyp, len, ivp) ==
  [fn |-> fn, family |-> family, rt |-> FALSE,
   dest |-> dest, src1 |-> src1, count1 |-> count1, src2 |-> src2, count2 |-> count2,
   macp |-> macp, keyp |-> keyp, key |-> TestKey(len), len |-> len,
   ivp |-> ivp, iv |-> TestIv(len)]

\* null pointers and bad key lengths
ArgsValidation ==
  {MkArgs(fn, "validation", d, s1, c1, s2, c2, mp, kp, 16, ip) :
     fn \in Fns, d \in {Null, 2}, s1 \in {Null, 0}, c1 \in {0, 1},
     s2 \in {Null, 1}, c2 \in {0, 1}, mp \in {Null, 0}, kp \in {Null, 0}, ip \in {Null, 0}}
  \cup {MkArgs(fn, "validation", 2, 0, 1, 1, 1, 0, 0, len, 0) : fn \in Fns, len \in BadLens}

\* short buffers placed everywhere, overlapping or not
ArgsAlias ==
  {MkArgs(fn, "alias", d, s1, c1, s2, c2, 0, 0, 16, 0) :
     fn \in Fns, d \in 0..AliasSpan, s1 \in 0..AliasSpan, c1 \in 0..AliasSpan,
     s2 \in 0..AliasSpan, c2 \in 0..AliasSpan}

\* disjoint buffers of every length up to MaxCount
ArgsLong ==
  {MkArgs(fn, "long", 2 * MaxCount, 0, c1, MaxCount, c2, 0, 0, len, 0) :
     fn \in Fns, c1 \in 0..MaxCount, c2 \in 0..MaxCount, len \in GoodLens}

InitArgs == ArgsValidation \cup ArgsAlias \cup ArgsLong

\* the mac handed to beltDWPUnwrap: the tag of (src2, src1) or another value
InitMac(a, good) ==
  IF a.fn = "Unwrap" /\ a.family # "validation"
  THEN LET tag == DWPTagData(Rd(InitMem, a.src1, a.count1), Rd(InitMem, a.src2, a.count2),
                             a.key, a.len, a.iv)
       IN IF good THEN tag ELSE OtherMac(tag)
  ELSE Data(MacLen, 3)

ClientIdle ==
  /\ hin = <<>>
  /\ ain = <<>>
  /\ out = <<>>
  /\ fin = FALSE
  /\ asserted = FALSE
  /\ ncalls = 0

InitOneShot ==
  \E a \in InitArgs, good \in BOOLEAN :
    /\ args = a
    /\ pc = (IF a.fn = "Wrap" THEN "W_check" ELSE "U_check")
    /\ mem = InitMem
    /\ mem0 = InitMem
    /\ macbuf = InitMac(a, good)
    /\ mac0 = InitMac(a, good)
    /\ state = ZeroState
    /\ blob = "none"
    /\ ret = "none"
    /\ orig = <<>>
    /\ trace = <<>>
    /\ ClientIdle

\* the caller overwrites count octets at address a
Scramble(m, a, count) == Wr(m, a, [i \in 1..count |-> (m[a + i - 1] + 1) % OctetMod])

\* the caller of beltDWPWrap hands dest, src2, mac, key and iv to beltDWPUnwrap;
\* the output goes to the buffer that held the payload, overwritten beforehand
T_Unwrap ==
  /\ pc = "done"
  /\ args.fn = "Wrap"
  /\ args.family = "long"
  /\ ret = "ERR_OK"
  /\ args' = [args EXCEPT !.fn = "Unwrap", !.rt = TRUE, !.src1 = args.dest, !.dest = args.src1]
  /\ orig' = Rd(mem0, args.src1, args.count1)
  /\ mem' = Scramble(mem, args.src1, args.count1)
  /\ mem0' = mem'
  /\ mac0' = macbuf
  /\ pc' = "U_check"
  /\ ret' = "none"
  /\ blob' = "none"
  /\ trace' = <<>>
  /\ UNCHANGED <<macbuf, state, clientVars>>

NextOneShot ==
  \/ W_check \/ W_create \/ W_start \/ W_stepI \/ W_move
  \/ W_stepE \/ W_stepA \/ W_stepG \/ W_close
  \/ U_check \/ U_create \/ U_start \/ U_stepI \/ U_stepA
  \/ U_stepV \/ U_badmac \/ U_move \/ U_stepD \/ U_close
  \/ T_Unwrap

SpecOneShot == InitOneShot /\ [][NextOneShot]_vars

(***************************************************************************)
(* A caller that wraps a message, flips one bit of what it got or of what  *)
(* it used, and unwraps                                                    *)
(***************************************************************************)
\* the iv for which r = 0: the block the cipher maps to zero
WeakIv(len) == beltBlockDecr(ZeroBlock, beltKeyExpand(TestKey(len), len))

Pow2 == <<1, 2, 4, 8, 16, 32, 64, 128>>

\* octet x with bit b flipped
FlipBit(x, b) == XorOctet(x, Pow2[b + 1])

\* buf with bit b of octet o flipped
FlipIn(buf, o, b) == [buf EXCEPT ![o] = FlipBit(@, b)]

TamperCounts == {0, 1, BlockLen, MaxCount}
TamperBits == {0, 7}
TamperKinds == {"header", "ciphertext", "tag", "key", "iv"}

ArgsTamper ==
  {[tamper |-> "none", weak |-> w] @@
   [MkArgs("Wrap", "tamper", 2 * MaxCount, 0, c1, MaxCount, c2, 0, 0, len, 0)
      EXCEPT !.iv = IF w THEN WeakIv(len) ELSE TestIv(len)] :
     c1 \in TamperCounts, c2 \in TamperCounts, len \in GoodLens, w \in BOOLEAN}

InitTamper ==
  \E a \in ArgsTamper :
    /\ args = a
    /\ pc = "W_check"
    /\ mem = InitMem
    /\ mem0 = InitMem
    /\ macbuf = Data(MacLen, 3)
    /\ mac0 = Data(MacLen, 3)
    /\ state = ZeroState
    /\ blob = "none"
    /\ ret = "none"
    /\ orig = <<>>
    /\ trace = <<>>
    /\ ClientIdle

\* octets of the tampered object that may be hit: all of the header, the
\* ciphertext and the tag, the first and the last of the key and of the iv
TamperOctets(what) ==
  CASE what = "header" -> 1..args.count2
    [] what = "ciphertext" -> 1..args.count1
    [] what = "tag" -> 1..MacLen
    [] what = "key" -> {1, args.len}
    [] what = "iv" -> {1, BlockLen}

\* beltDWPWrap has returned ERR_OK; one bit is flipped and beltDWPUnwrap is
\* called with dest = the buffer that held the payload
T_Tamper ==
  /\ pc = "done"
  /\ args.fn = "Wrap"
  /\ args.family = "tamper"
  /\ ret = "ERR_OK"
  /\ \E what \in TamperKinds, b \in TamperBits :
       \E o \in TamperOctets(what) :
         LET m1 == Scramble(mem, args.src1, args.count1)
             m2 == IF what = "header"
                   THEN Wr(m1, args.src2 + o - 1, <<FlipBit(m1[args.src2 + o - 1], b)>>)
                   ELSE IF what = "ciphertext"
                   THEN Wr(m1, args.dest + o - 1, <<FlipBit(m1[args.dest + o - 1], b)>>)
                   ELSE m1
             mac1 == IF what = "tag" THEN FlipIn(macbuf, o, b) ELSE macbuf
         IN /\ args' = [args EXCEPT !.fn = "Unwrap", !.tamper = what,
                                    !.src1 = args.dest, !.dest = args.src1,
                                    !.key = IF what = "key" THEN FlipIn(@, o, b) ELSE @,
                                    !.iv = IF what = "iv" THEN FlipIn(@, o, b) ELSE @]
            /\ mem' = m2
            /\ mem0' = m2
            /\ macbuf' = mac1
            /\ mac0' = mac1
  /\ orig' = Rd(mem0, args.src1, args.count1)
  /\ pc' = "U_check"
  /\ ret' = "none"
  /\ blob' = "none"
  /\ trace' = <<>>
  /\ UNCHANGED <<state, clientVars>>

NextTamper ==
  \/ W_check \/ W_create \/ W_start \/ W_stepI \/ W_move
  \/ W_stepE \/ W_stepA \/ W_stepG \/ W_close
  \/ U_check \/ U_create \/ U_start \/ U_stepI \/ U_stepA
  \/ U_stepV \/ U_badmac \/ U_move \/ U_stepD \/ U_close
  \/ T_Tamper

SpecTamper == InitTamper /\ [][NextTamper]_vars

(***************************************************************************)
(* A client of the step functions that calls them in any order             *)
(***************************************************************************)
\* number of calls the client makes after the first beltDWPStart
MaxCalls == 3
\* longest buffer the client passes to a step
MaxChunk == 17

StreamLens == {0, 1, BlockLen - 1, MaxChunk}
StreamBufs == {Data(n, 1) : n \in StreamLens}
\* the buffers the client passes to StepE and StepD
CtrBufs == {Data(n, 1) : n \in {1, MaxChunk}}
StreamKeyLens == {16, 32}

Call(op, n, ok) == [op |-> op, n |-> n, ok |-> ok]

oneShotVars == <<args, mem, blob, mem0, mac0, orig>>

\* the octet orders the library is built for
Builds == {"LITTLE_ENDIAN", "BIG_ENDIAN"}

\* ASSERT is compiled in (debug build) or expands to nothing (release build)
AssertsOn == args.asserts

\* the builds the client is run on: the debug build of either octet order and
\* the little-endian release build
ClientBuilds ==
  {[fn |-> "Client", order |-> o, asserts |-> a] : o \in Builds, a \in BOOLEAN}
    \ {[fn |-> "Client", order |-> "BIG_ENDIAN", asserts |-> FALSE]}

\* beltDWPStepV as the client's build compiles it
StepVBuilt(mac, s) ==
  IF args.order = "BIG_ENDIAN" THEN beltDWPStepV_BE(mac, s) ELSE beltDWPStepV(mac, s)

InitStream ==
  /\ pc = "client"
  /\ args \in ClientBuilds
  /\ mem = <<>>
  /\ mem0 = <<>>
  /\ macbuf = Data(MacLen, 3)
  /\ mac0 = Data(MacLen, 3)
  /\ state = beltDWPStart(Storage(args.order), TestKey(16), 16, TestIv(16))
  /\ blob = "live"
  /\ ret = "none"
  /\ orig = <<>>
  /\ trace = <<Call("Start", 16, TRUE)>>
  /\ ClientIdle

CanCall == pc = "client" /\ ~asserted /\ ncalls < MaxCalls

S_Start ==
  /\ CanCall
  /\ \E len \in StreamKeyLens :
       /\ state' = beltDWPStart(state, TestKey(len), len, TestIv(len))
       /\ trace' = Append(trace, Call("Start", len, TRUE))
  /\ hin' = <<>>
  /\ ain' = <<>>
  /\ out' = <<>>
  /\ fin' = FALSE
  /\ ncalls' = ncalls + 1
  /\ UNCHANGED <<pc, macbuf, ret, asserted, oneShotVars>>

\* beltDWPStepI that returns: its ASSERT holds or is not compiled in
S_StepI ==
  /\ CanCall
  /\ \E buf \in StreamBufs :
       /\ beltDWPStepI_Assert(buf, state) \/ ~AssertsOn
       /\ state' = beltDWPStepI(buf, state)
       /\ hin' = hin \o buf
       /\ trace' = Append(trace, Call("StepI", Len(buf), TRUE))
  /\ ncalls' = ncalls + 1
  /\ UNCHANGED <<pc, macbuf, ret, ain, out, fin, asserted, oneShotVars>>

\* beltDWPStepI whose ASSERT fails: the program is aborted
S_StepI_Abort ==
  /\ CanCall
  /\ AssertsOn
  /\ \E buf \in StreamBufs :
       /\ ~beltDWPStepI_Assert(buf, state)
       /\ trace' = Append(trace, Call("StepI", Len(buf), FALSE))
  /\ asserted' = TRUE
  /\ ncalls' = ncalls + 1
  /\ UNCHANGED <<pc, macbuf, ret, state, hin, ain, out, fin, oneShotVars>>

S_StepA ==
  /\ CanCall
  /\ \E buf \in StreamBufs :
       /\ state' = beltDWPStepA(buf, state)
       /\ ain' = ain \o buf
       /\ trace' = Append(trace, Call("StepA", Len(buf), TRUE))
  /\ ncalls' = ncalls + 1
  /\ UNCHANGED <<pc, macbuf, ret, hin, out, fin, asserted, oneShotVars>>

S_StepE ==
  /\ CanCall
  /\ \E buf \in CtrBufs :
       LET e == beltDWPStepE(buf, state)
       IN /\ state' = e.state
          /\ out' = out \o e.buf
          /\ trace' = Append(trace, Call("StepE", Len(buf), TRUE))
  /\ ncalls' = ncalls + 1
  /\ UNCHANGED <<pc, macbuf, ret, hin, ain, fin, asserted, oneShotVars>>

S_StepD ==
  /\ CanCall
  /\ \E buf \in CtrBufs :
       LET d == beltDWPStepD(buf, state)
       IN /\ state' = d.state
          /\ out' = out \o d.buf
          /\ trace' = Append(trace, Call("StepD", Len(buf), TRUE))
  /\ ncalls' = ncalls + 1
  /\ UNCHANGED <<pc, macbuf, ret, hin, ain, fin, asserted, oneShotVars>>

S_StepG ==
  /\ CanCall
  /\ LET g == beltDWPStepG(state)
     IN /\ state' = g.state
        /\ macbuf' = g.mac
  /\ trace' = Append(trace, Call("StepG", MacLen, TRUE))
  /\ fin' = TRUE
  /\ ncalls' = ncalls + 1
  /\ UNCHANGED <<pc, ret, hin, ain, out, asserted, oneShotVars>>

\* beltDWPStepV with the tag StepG would write, or with another mac
S_StepV ==
  /\ CanCall
  /\ \E good \in BOOLEAN :
       LET tag == beltDWPStepG(state).mac
           mac == IF good THEN tag ELSE OtherMac(tag)
           v == StepVBuilt(mac, state)
       IN /\ state' = v.state
          /\ macbuf' = mac
          /\ ret' = IF v.ok THEN "TRUE" ELSE "FALSE"
  /\ trace' = Append(trace, Call("StepV", MacLen, TRUE))
  /\ fin' = TRUE
  /\ ncalls' = ncalls + 1
  /\ UNCHANGED <<pc, hin, ain, out, asserted, oneShotVars>>

NextStream ==
  \/ S_Start \/ S_StepI \/ S_StepI_Abort \/ S_StepA
  \/ S_StepE \/ S_StepD \/ S_StepG \/ S_StepV

SpecStream == InitStream /\ [][NextStream]_vars

(***************************************************************************)
(* A client that feeds a header and a payload in chunks:                   *)
(* StepI*, (StepE, StepA)*, StepG                                          *)
(***************************************************************************)
\* longest header and longest payload
MaxMsg == 17
\* ncalls stops counting here
CallCap == 3

MsgSeeds == {0, 1}

InitChunk ==
  \E hl \in 0..MaxMsg, pl \in 0..MaxMsg, hs \in MsgSeeds, len \in StreamKeyLens :
    /\ args = [fn |-> "Chunks", key |-> TestKey(len), len |-> len, iv |-> TestIv(len),
               hdr |-> Data(hl, hs), pay |-> Data(pl, 1)]
    /\ pc = "hdr"
    /\ mem = <<>>
    /\ mem0 = <<>>
    /\ macbuf = Data(MacLen, 3)
    /\ mac0 = Data(MacLen, 3)
    /\ state = beltDWPStart(ZeroState, TestKey(len), len, TestIv(len))
    /\ blob = "live"
    /\ ret = "none"
    /\ orig = <<>>
    /\ trace = <<>>
    /\ ClientIdle

Count1(n) == IF n < CallCap THEN n + 1 ELSE n

\* the next n octets of the header
K_StepI ==
  /\ pc = "hdr"
  /\ \E n \in 0..(Len(args.hdr) - Len(hin)) :
       LET buf == SubSeq(args.hdr, Len(hin) + 1, Len(hin) + n)
       IN /\ beltDWPStepI_Assert(buf, state)
          /\ state' = beltDWPStepI(buf, state)
          /\ hin' = hin \o buf
  /\ ncalls' = Count1(ncalls)
  /\ UNCHANGED <<pc, macbuf, ret, trace, ain, out, fin, asserted, oneShotVars>>

\* the next n octets of the payload: StepE, then StepA on the result
K_StepEA ==
  /\ pc \in {"hdr", "pay"}
  /\ Len(hin) = Len(args.hdr)
  /\ \E n \in 0..(Len(args.pay) - Len(ain)) :
       LET buf == SubSeq(args.pay, Len(ain) + 1, Len(ain) + n)
           e == beltDWPStepE(buf, state)
       IN /\ state' = beltDWPStepA(e.buf, e.state)
          /\ ain' = ain \o e.buf
          /\ out' = out \o e.buf
  /\ pc' = "pay"
  /\ ncalls' = Count1(ncalls)
  /\ UNCHANGED <<macbuf, ret, trace, hin, fin, asserted, oneShotVars>>

K_StepG ==
  /\ pc \in {"hdr", "pay"}
  /\ Len(hin) = Len(args.hdr)
  /\ Len(ain) = Len(args.pay)
  /\ LET g == beltDWPStepG(state)
     IN /\ state' = g.state
        /\ macbuf' = g.mac
  /\ fin' = TRUE
  /\ pc' = "done"
  /\ UNCHANGED <<ret, trace, hin, ain, out, asserted, ncalls, oneShotVars>>

NextChunk == K_StepI \/ K_StepEA \/ K_StepG

SpecChunk == InitChunk /\ [][NextChunk]_vars

(***************************************************************************)
(* A client that hashes: after beltDWPStart it calls StepI, StepA and      *)
(* StepG in any order the assertions accept.  Its buffers hold zero        *)
(* octets, so that data and zero padding look alike, and octets of length  *)
(* blocks.                                                                 *)
(***************************************************************************)
\* the first octet of the length block of a one-octet header
LenOctet == SubSeq(LenBlock([lo |-> 8, hi |-> 0]), 1, 1)

AbsorbBufs ==
  {<<>>, Data(1, 0), LenOctet, Data(BlockLen - 1, 0), Data(MaxChunk, 1)}

\* the state beltDWPStart leaves for this client
AbsorbStart == beltDWPStart(ZeroState, TestKey(16), 16, TestIv(16))

InitAbsorb ==
  /\ pc = "client"
  /\ args = [fn |-> "Absorb", order |-> "LITTLE_ENDIAN", asserts |-> TRUE]
  /\ mem = <<>>
  /\ mem0 = <<>>
  /\ macbuf = Data(MacLen, 3)
  /\ mac0 = Data(MacLen, 3)
  /\ state = AbsorbStart
  /\ blob = "live"
  /\ ret = "none"
  /\ orig = <<>>
  /\ trace = <<>>
  /\ ClientIdle

\* beltDWPStepI whose ASSERT holds
H_StepI ==
  /\ CanCall
  /\ \E buf \in AbsorbBufs :
       /\ beltDWPStepI_Assert(buf, state)
       /\ state' = beltDWPStepI(buf, state)
       /\ hin' = hin \o buf
       /\ trace' = Append(trace, Call("StepI", Len(buf), TRUE))
  /\ ncalls' = ncalls + 1
  /\ UNCHANGED <<pc, macbuf, ret, ain, out, fin, asserted, oneShotVars>>

H_StepA ==
  /\ CanCall
  /\ \E buf \in AbsorbBufs :
       /\ state' = beltDWPStepA(buf, state)
       /\ ain' = ain \o buf
       /\ trace' = Append(trace, Call("StepA", Len(buf), TRUE))
  /\ ncalls' = ncalls + 1
  /\ UNCHANGED <<pc, macbuf, ret, hin, out, fin, asserted, oneShotVars>>

H_StepG ==
  /\ CanCall
  /\ LET g == beltDWPStepG(state)
     IN /\ state' = g.state
        /\ macbuf' = g.mac
  /\ trace' = Append(trace, Call("StepG", MacLen, TRUE))
  /\ fin' = TRUE
  /\ ncalls' = ncalls + 1
  /\ UNCHANGED <<pc, ret, hin, ain, out, asserted, oneShotVars>>

NextAbsorb == H_StepI \/ H_StepA \/ H_StepG

SpecAbsorb == InitAbsorb /\ [][NextAbsorb]_vars

Spec == SpecOneShot

(***************************************************************************)
(* Properties                                                              *)
(***************************************************************************)
Range(f) == {f[i] : i \in DOMAIN f}

IsPrefix(a, b) == Len(a) <= Len(b) /\ SubSeq(b, 1, Len(a)) = a

CountIn(f, x) == Cardinality({i \in DOMAIN f : f[i] = x})

\* count octets at a and m octets at b share an octet
RegionsOverlap(a, count, b, m) == count > 0 /\ m > 0 /\ a < b + m /\ b < a + count

Src1AtEntry == Rd(mem0, args.src1, args.count1)
Src2AtEntry == Rd(mem0, args.src2, args.count2)
DestNow == Rd(mem, args.dest, args.count1)

\* C1. Round trip: when beltDWPWrap returned ERR_OK with ciphertext c and tag
\* m, beltDWPUnwrap of (c, the same header, m, the same key and iv), once its
\* state is allocated, returns ERR_OK and dest holds exactly the original
\* payload.
RoundTrip ==
  (args.fn = "Unwrap" /\ args.rt /\ pc = "done" /\ ret # "ERR_OUTOFMEMORY")
    => (ret = "ERR_OK" /\ DestNow = orig)

RoundTripWitness ==
  /\ args.fn = "Unwrap" /\ args.rt /\ pc = "done" /\ ret = "ERR_OK"
  /\ args.count1 > BlockLen /\ args.count2 > BlockLen /\ args.len = 24
  /\ DestNow = orig
  /\ Rd(mem0, args.dest, args.count1) # orig

UnwrapOkTrace ==
  <<"blobCreate", "Start", "StepI(src2)", "StepA(src1)", "StepV(mac)=TRUE",
    "memMove(dest,src1)", "StepD(dest)", "blobClose">>

UnwrapBadTrace ==
  <<"blobCreate", "Start", "StepI(src2)", "StepA(src1)", "StepV(mac)=FALSE", "blobClose">>

\* C2. In beltDWPUnwrap the calls are made in the order StepI(src2),
\* StepA(src1), StepV(mac), then the copy and StepD; memory is not written
\* before StepV has returned TRUE; and when mac differs from the tag of
\* (src2, src1) the call returns ERR_BAD_MAC with memory as it was on entry.
UnwrapVerifyThenDecrypt ==
  args.fn = "Unwrap" =>
    /\ ("StepV(mac)=TRUE" \notin Range(trace) => mem = mem0)
    /\ (IsPrefix(trace, UnwrapOkTrace) \/ IsPrefix(trace, UnwrapBadTrace))
    /\ (pc = "done" /\ blob = "closed"
          /\ mac0 # DWPTagData(Src1AtEntry, Src2AtEntry, args.key, args.len, args.iv))
         => (ret = "ERR_BAD_MAC" /\ mem = mem0 /\ trace = UnwrapBadTrace)

UnwrapBadMacWitness ==
  /\ args.fn = "Unwrap" /\ pc = "done" /\ ret = "ERR_BAD_MAC"
  /\ args.count1 > BlockLen /\ args.count2 > 0
  /\ mem = mem0

\* C3. Chunking independence: whatever the split of the header into StepI
\* calls and of the payload into StepE+StepA calls, the ciphertext and the
\* tag of StepG are those of the one-shot sequence on the whole header
\* and payload.
ChunkingIndependent ==
  (args.fn = "Chunks" /\ pc = "done") =>
    LET w == DWPWrapData(args.pay, args.hdr, args.key, args.len, args.iv)
    IN out = w.dest /\ macbuf = w.mac

ChunkingWitness ==
  /\ args.fn = "Chunks" /\ pc = "done" /\ ncalls = CallCap
  /\ Len(args.hdr) > BlockLen /\ Len(args.pay) > BlockLen
  /\ out # args.pay

(***************************************************************************)
(* Calls of the client, read off trace                                     *)
(***************************************************************************)
\* the beltDWPStart call that call j works on
LastStart(j) ==
  CHOOSE i \in 1..j : trace[i].op = "Start" /\ \A k \in (i + 1)..j : trace[k].op # "Start"

\* an accepted non-empty call of one of ops precedes call j on the same state
NonEmptyBefore(j, ops) ==
  \E i \in (LastStart(j) + 1)..(j - 1) :
    trace[i].op \in ops /\ trace[i].n > 0 /\ trace[i].ok

\* no call has run past its assertion: every non-empty StepI call that
\* returned was made before the first non-empty StepA call on its state (in a
\* build with ASSERT there is no other call that returns)
AssertsHeld ==
  \A j \in 1..Len(trace) :
    (trace[j].op = "StepI" /\ trace[j].n > 0 /\ trace[j].ok)
      => ~NonEmptyBefore(j, {"StepA"})

\* StepG or StepV precedes call j on the same state
FinalBefore(j) ==
  \E i \in (LastStart(j) + 1)..(j - 1) : trace[i].op \in {"StepG", "StepV"}

\* C4 as stated: after a non-empty StepE, StepD or StepA every StepI call,
\* of any length, fails the assertion.
PhaseMonotonicOriginal ==
  \A j \in 1..Len(trace) :
    (trace[j].op = "StepI" /\ NonEmptyBefore(j, {"StepE", "StepD", "StepA"}))
      => ~trace[j].ok

\* C4, amended. The payload phase is len.hi # 0 and it is entered by a
\* non-empty StepA only: in a build with ASSERT a StepI call fails the
\* assertion exactly when it is non-empty and a non-empty StepA precedes it;
\* StepE and StepD do not change the phase and an empty StepI is always
\* accepted.  In a build without ASSERT every StepI call returns.
PhaseMonotonic ==
  /\ (state.len.hi # 0) <=> (ain # <<>>)
  /\ \A j \in 1..Len(trace) :
       trace[j].op = "StepI" =>
         (trace[j].ok <=>
            (~AssertsOn \/ trace[j].n = 0 \/ ~NonEmptyBefore(j, {"StepA"})))

PhaseMonotonicWitness ==
  /\ asserted
  /\ Len(trace) = 4
  /\ trace[2].op = "StepE" /\ trace[2].n > 0
  /\ trace[3].op = "StepA" /\ trace[3].n > 0
  /\ trace[4].op = "StepI" /\ ~trace[4].ok

\* C5. Aliasing in beltDWPWrap: wherever dest, src1 and src2 lie, the header
\* is absorbed from the contents src2 had on entry before memory is written,
\* and the ciphertext and the tag are those of disjoint buffers with the
\* same contents.
WrapAliasSafe ==
  args.fn = "Wrap" =>
    /\ ("StepI(src2)" \notin Range(trace) => mem = mem0)
    /\ pc = "W_move" =>
         state = beltDWPStepI(Src2AtEntry,
                              beltDWPStart(ZeroState, args.key, args.len, args.iv))
    /\ (pc = "done" /\ ret = "ERR_OK") =>
         LET w == DWPWrapData(Src1AtEntry, Src2AtEntry, args.key, args.len, args.iv)
         IN DestNow = w.dest /\ macbuf = w.mac

WrapAliasWitness ==
  /\ args.fn = "Wrap" /\ pc = "done" /\ ret = "ERR_OK"
  /\ args.count1 > 1 /\ args.count2 > 1
  /\ args.dest > args.src1 /\ args.dest < args.src1 + args.count1
  /\ RegionsOverlap(args.dest, args.count1, args.src2, args.count2)
  /\ Src2AtEntry # Rd(mem, args.src2, args.count2)

\* a buffer of count octets at a null pointer
BufInvalid(ptr, count) == ptr = Null /\ count > 0

BadArgs(a) ==
  \/ a.len \notin GoodLens
  \/ BufInvalid(a.src1, a.count1)
  \/ BufInvalid(a.src2, a.count2)
  \/ BufInvalid(a.dest, a.count1)
  \/ BufInvalid(a.macp, MacLen)
  \/ BufInvalid(a.keyp, a.len)
  \/ BufInvalid(a.ivp, BlockLen)

\* C6. Validation comes first: with a key length other than 16, 24, 32 or an
\* invalid buffer, beltDWPWrap and beltDWPUnwrap return ERR_BAD_INPUT,
\* blobCreate is not called, and memory and mac are unchanged.
ValidationFirst ==
  (args.fn \in Fns /\ BadArgs(args)) =>
    /\ pc \in {"W_check", "U_check", "done"}
    /\ blob = "none"
    /\ trace = <<>>
    /\ mem = mem0
    /\ macbuf = mac0
    /\ pc = "done" => ret = "ERR_BAD_INPUT"

ValidationWitness ==
  /\ args.fn = "Wrap" /\ pc = "done" /\ ret = "ERR_BAD_INPUT"
  /\ args.len = 16 /\ args.macp = Null
  /\ ~BufInvalid(args.src1, args.count1) /\ ~BufInvalid(args.src2, args.count2)
  /\ ~BufInvalid(args.dest, args.count1) /\ args.keyp # Null /\ args.ivp # Null

StepOps == {"StepI", "StepA", "StepE", "StepD", "StepG", "StepV"}

\* C7 as stated: after StepG or StepV every further step call on the state
\* fails an assertion.
FinalTerminalOriginal ==
  \A j \in 1..Len(trace) :
    (trace[j].op \in StepOps /\ FinalBefore(j)) => ~trace[j].ok

\* C7, amended. The phase kept in the state is len.hi # 0: it is entered at
\* the first non-empty StepA and left only by beltDWPStart.  StepG and StepV
\* leave len as it was, and a step call after them is accepted exactly as
\* before them: only a non-empty StepI after a non-empty StepA fails the
\* assertion, in a build that has ASSERT.
FinalNotTerminal ==
  /\ state.len.lo = 8 * Len(hin)
  /\ state.len.hi = 8 * Len(ain)
  /\ \A j \in 1..Len(trace) :
       (trace[j].op \in StepOps /\ FinalBefore(j)) =>
         (trace[j].ok <=>
            ~(/\ AssertsOn
              /\ trace[j].op = "StepI" /\ trace[j].n > 0
              /\ NonEmptyBefore(j, {"StepA"})))

FinalNotTerminalWitness ==
  /\ Len(trace) = 4
  /\ trace[2].op = "StepA" /\ trace[2].n > BlockLen
  /\ trace[3].op = "StepV"
  /\ trace[4].op = "StepD" /\ trace[4].n > BlockLen /\ trace[4].ok

LastCall == trace[Len(trace)]
LastIsFinal == LastCall.op \in {"StepG", "StepV"}
LastKeyLen == trace[LastStart(Len(trace))].n

\* the state right after the beltDWPStart call the client works on
StartedState == beltDWPStart(ZeroState, TestKey(LastKeyLen), LastKeyLen, TestIv(LastKeyLen))

\* C8 as stated: when StepG or StepV has returned, the storage holds neither
\* the scheduled key nor r.
ZeroizedOriginal ==
  LastIsFinal => (state.ctr.key # StartedState.ctr.key /\ state.r # StartedState.r)

\* the tag held by the words t[0], t[1] after the last call: StepV of the
\* big-endian build has byte-reversed them
TagInT ==
  IF args.order = "BIG_ENDIAN" /\ LastCall.op = "StepV"
  THEN SubSeq(u32RevT01(state.t), 1, MacLen)
  ELSE SubSeq(state.t, 1, MacLen)

\* C8, amended. StepG and StepV do not wipe the state: when they return it
\* still holds the scheduled key and r as beltDWPStart set them, and the
\* first two words of t hold the tag (written to mac by StepG, compared
\* with mac by StepV).
FinalKeepsSecrets ==
  LastIsFinal =>
    /\ state.ctr.key = StartedState.ctr.key
    /\ state.r = StartedState.r
    /\ state.filled = 0
    /\ LastCall.op = "StepG" => TagInT = macbuf
    /\ LastCall.op = "StepV" => (ret = "TRUE" <=> TagInT = macbuf)

FinalKeepsSecretsWitness ==
  /\ LastIsFinal /\ LastCall.op = "StepG"
  /\ Len(hin) > BlockLen /\ Len(ain) > 0
  /\ state.r # ZeroBlock

\* the buffers handed to the call overlap
AnyOverlap(a) ==
  \/ RegionsOverlap(a.dest, a.count1, a.src1, a.count1)
  \/ RegionsOverlap(a.dest, a.count1, a.src2, a.count2)
  \/ RegionsOverlap(a.src1, a.count1, a.src2, a.count2)

\* C9 as stated: beltDWPUnwrap with dest overlapping src1 or src2 returns
\* ERR_BAD_INPUT without constructing the state.  The returns on which the
\* allocation or the verification failed are left aside, so that a violation
\* is a call that built the state, verified the tag and decrypted into dest.
OverlapRejectedOriginal ==
  (/\ args.fn = "Unwrap"
   /\ \/ RegionsOverlap(args.dest, args.count1, args.src1, args.count1)
      \/ RegionsOverlap(args.dest, args.count1, args.src2, args.count2)
   /\ pc = "done"
   /\ ret \notin {"ERR_OUTOFMEMORY", "ERR_BAD_MAC"})
    => (ret = "ERR_BAD_INPUT" /\ blob = "none")

\* lines 267-276 as a function of the contents of the buffers
DWPUnwrapData(src1, src2, mac, key, len, iv) ==
  LET v == beltDWPStepV(mac, beltDWPStepA(src1, beltDWPStepI(src2,
               beltDWPStart(ZeroState, key, len, iv))))
  IN [ok |-> v.ok, dest |-> beltDWPStepD(src1, v.state).buf]

\* C9, amended. Overlap is not checked: the one-shot functions test the key
\* length and memIsValid of each buffer and nothing else.  With valid
\* arguments whose buffers overlap they never return ERR_BAD_INPUT, they
\* construct the state, and a call that returns ERR_OK leaves in dest what
\* disjoint buffers with the same contents give.
OverlapNotChecked ==
  (args.fn \in Fns /\ ~BadArgs(args) /\ AnyOverlap(args)) =>
    /\ ret # "ERR_BAD_INPUT"
    /\ pc = "done" => ret \in {"ERR_OK", "ERR_BAD_MAC", "ERR_OUTOFMEMORY"}
    /\ (pc = "done" /\ ret # "ERR_OUTOFMEMORY") => blob = "closed"
    /\ (pc = "done" /\ ret = "ERR_OK" /\ args.fn = "Unwrap") =>
         DestNow = DWPUnwrapData(Src1AtEntry, Src2AtEntry, mac0,
                                 args.key, args.len, args.iv).dest

OverlapWitness ==
  /\ args.fn = "Unwrap" /\ pc = "done" /\ ret = "ERR_OK"
  /\ args.count1 > 1 /\ args.count2 > 0
  /\ args.dest > args.src1 /\ args.dest < args.src1 + args.count1
  /\ RegionsOverlap(args.dest, args.count1, args.src2, args.count2)
  /\ mem # mem0

Returned == {"ERR_OK", "ERR_BAD_INPUT", "ERR_OUTOFMEMORY", "ERR_BAD_MAC"}

\* C10. The state is closed exactly once on the paths on which blobCreate
\* succeeded (ERR_OK, ERR_BAD_MAC), as the last thing before the return, and
\* the storage is wiped; on the ERR_BAD_INPUT and ERR_OUTOFMEMORY paths no
\* state exists and none is closed.
StateReleased ==
  args.fn \in Fns =>
    /\ CountIn(trace, "blobClose") <= 1
    /\ CountIn(trace, "blobCreate") <= 1
    /\ pc = "done" =>
         /\ ret \in Returned
         /\ ret \in {"ERR_OK", "ERR_BAD_MAC"} =>
              /\ blob = "closed"
              /\ CountIn(trace, "blobCreate") = 1
              /\ CountIn(trace, "blobClose") = 1
              /\ trace[Len(trace)] = "blobClose"
              /\ state = ZeroState
         /\ ret \in {"ERR_BAD_INPUT", "ERR_OUTOFMEMORY"} =>
              /\ blob = "none"
              /\ trace = <<>>

StateReleasedWitness ==
  /\ args.fn = "Unwrap" /\ pc = "done" /\ ret = "ERR_BAD_MAC"
  /\ blob = "closed" /\ state = ZeroState
  /\ args.count1 > BlockLen

(***************************************************************************)
(* CTR symmetry                                                            *)
(***************************************************************************)
\* the state the chunk client started from
ChunkStart == beltDWPStart(ZeroState, args.key, args.len, args.iv)

\* a buffer that is not the payload
ProbeBuf == Data(MaxMsg, 2)

\* buf passed through StepE in two chunks, the first of k octets
StepE2(buf, k, s) ==
  LET e1 == beltDWPStepE(SubSeq(buf, 1, k), s)
      e2 == beltDWPStepE(SubSeq(buf, k + 1, Len(buf)), e1.state)
  IN e1.buf \o e2.buf

\* buf passed through StepD (k octets) and then StepE (the rest)
StepDE(buf, k, s) ==
  LET d1 == beltDWPStepD(SubSeq(buf, 1, k), s)
      e2 == beltDWPStepE(SubSeq(buf, k + 1, Len(buf)), d1.state)
  IN d1.buf \o e2.buf

\* C11. CTR symmetry.  (a) The ciphertext the client has produced so far by
\* StepE, in whatever chunks, is turned back into the payload by a second
\* pass from the state Start gave, the pass being split at any point into a
\* StepD and a StepE.  (b) From any state the client reaches (keystream
\* partly consumed or not) StepD and StepE give the same octets and the
\* same state, and a buffer encrypted in two chunks (split at the ends and
\* around the block boundary) is restored by one StepE from the same state.
CTRSymmetry ==
  args.fn = "Chunks" =>
    /\ \A k \in 0..Len(out) :
         StepDE(out, k, ChunkStart) = SubSeq(args.pay, 1, Len(out))
    /\ beltDWPStepD(ProbeBuf, state) = beltDWPStepE(ProbeBuf, state)
    /\ \A k \in {0, 1, BlockLen - 1, BlockLen, Len(ProbeBuf)} :
         beltDWPStepE(StepE2(ProbeBuf, k, state), state).buf = ProbeBuf

\* the client stopped inside a keystream block of a payload longer than a
\* block: the ciphertext so far was made by one chunk and the rest follows
CTRSymmetryWitness ==
  /\ args.fn = "Chunks" /\ pc = "pay"
  /\ Len(args.pay) > BlockLen
  /\ Len(out) \in 1..(BlockLen - 1)
  /\ state.ctr.reserved = BlockLen - Len(out)
  /\ out # SubSeq(args.pay, 1, Len(out))

(***************************************************************************)
(* Tag sensitivity                                                         *)
(***************************************************************************)
\* beltDWPUnwrap was called after one bit was flipped, and has returned with
\* its state allocated
TamperedDone ==
  /\ args.fn = "Unwrap" /\ args.family = "tamper"
  /\ pc = "done" /\ ret # "ERR_OUTOFMEMORY"

\* C12 as stated, for the header and the ciphertext under the iv that makes
\* r = 0: a flipped bit makes beltDWPUnwrap return ERR_BAD_MAC.
TagSensitiveOriginal ==
  (TamperedDone /\ args.weak /\ args.tamper \in {"header", "ciphertext"})
    => ret = "ERR_BAD_MAC"

\* C12, amended.  A flipped bit of the tag always gives ERR_BAD_MAC.  For
\* the other objects beltDWPUnwrap returns ERR_BAD_MAC exactly when the flip
\* changes the 8 octets it recomputes; when r = 0 the accumulator is zero
\* whatever is absorbed, so flips of the header and of the ciphertext are
\* accepted and the altered ciphertext is decrypted into dest.
TagSensitive ==
  TamperedDone =>
    /\ ret \in {"ERR_OK", "ERR_BAD_MAC"}
    /\ args.tamper = "tag" => ret = "ERR_BAD_MAC"
    /\ ret = "ERR_BAD_MAC" <=>
         mac0 # DWPTagData(Src1AtEntry, Src2AtEntry, args.key, args.len, args.iv)
    /\ (args.weak /\ args.tamper \in {"header", "ciphertext"}) =>
         /\ ret = "ERR_OK"
         /\ args.tamper = "ciphertext" => DestNow # orig

TagSensitiveWitness ==
  /\ TamperedDone /\ args.tamper = "tag" /\ ret = "ERR_BAD_MAC"
  /\ args.count1 = MaxCount /\ args.count2 = MaxCount
  /\ mac0[MacLen] # DWPTagData(Src1AtEntry, Src2AtEntry,
                                args.key, args.len, args.iv)[MacLen]

(***************************************************************************)
(* The hash as a function of the header and the data                       *)
(***************************************************************************)
\* the 16-octet blocks of x, the last one zero-padded when x does not end on
\* a block boundary; no block for the empty x
RefBlocks(x) ==
  [k \in 1..((Len(x) + BlockLen - 1) \div BlockLen) |->
     [i \in 1..BlockLen |->
        IF BlockLen * (k - 1) + i <= Len(x) THEN x[BlockLen * (k - 1) + i] ELSE 0]]

\* t <- (t XOR B) * r for the blocks k, k+1, ... of blocks
RECURSIVE RefAbsorb(_, _, _, _)
RefAbsorb(t, blocks, r, k) ==
  IF k > Len(blocks) THEN t
  ELSE RefAbsorb(beltPolyMul(beltBlockXor2(t, blocks[k]), r), blocks, r, k + 1)

\* 8 * |h| in the low half, 8 * |c| in the high half
RefLenBlock(h, c) == HalfOctets(8 * Len(h), 8) \o HalfOctets(8 * Len(c), 8)

\* E_K(t) for header h and data c under (key, iv)
RefHash(h, c, key, len, iv) ==
  LET K == beltKeyExpand(key, len)
      r == beltBlockEncr(iv, K)
      t == RefAbsorb(beltH, RefBlocks(h) \o RefBlocks(c) \o <<RefLenBlock(h, c)>>, r, 1)
  IN beltBlockEncr(t, K)

\* C13. Reference hash.  After StepI calls carrying hin and StepA calls
\* carrying ain, in any chunks, beltDWPStepG leaves E_K(t) in the state and
\* writes its first 8 octets, t being the fold of t <- (t XOR B) * r from
\* beltH over the zero-padded blocks of hin, those of ain, and the length
\* block.  This holds of the tag the client has written and of the tag StepG
\* would write at any earlier point.
ReferenceHash ==
  args.fn = "Chunks" =>
    LET ref == RefHash(hin, ain, args.key, args.len, args.iv)
    IN /\ ~fin =>
            /\ beltDWPStepG(state).state.t = ref
            /\ beltDWPStepG(state).mac = SubSeq(ref, 1, MacLen)
       /\ fin =>
            /\ state.t = ref
            /\ macbuf = SubSeq(ref, 1, MacLen)

\* a header and a payload of more than a block each, not ending on a block
\* boundary, fed in several chunks
ReferenceHashWitness ==
  /\ args.fn = "Chunks" /\ pc = "done" /\ fin
  /\ Len(hin) = MaxMsg /\ Len(ain) = MaxMsg
  /\ Len(hin) % BlockLen # 0
  /\ ncalls = CallCap
  /\ macbuf = SubSeq(RefHash(hin, ain, args.key, args.len, args.iv), 1, MacLen)

(***************************************************************************)
(* What has been absorbed and what is buffered                             *)
(***************************************************************************)
\* the full blocks of x
FullBlocks(x) == SubSeq(RefBlocks(x), 1, Len(x) \div BlockLen)

\* the octets of x after its last full block
PartialTail(x) == SubSeq(x, BlockLen * (Len(x) \div BlockLen) + 1, Len(x))

\* C14. Phase-boundary padding, for calls whose assertions hold.  Before
\* finalization the accumulator is the
\* fold over blocks that are never mixed: while no payload octet has come,
\* the full blocks of the header, the rest of the header being buffered;
\* once a payload octet has come, the blocks of the header with its last
\* partial block zero-padded (once), then the full blocks of the payload,
\* the buffer holding payload octets only.
PhaseBoundaryPad ==
  (args.fn = "Client" /\ ~fin /\ AssertsHeld) =>
    LET payload == Len(ain) > 0
        cur == IF payload THEN ain ELSE hin
        absorbed == IF payload THEN RefBlocks(hin) \o FullBlocks(ain)
                    ELSE FullBlocks(hin)
    IN /\ state.t = RefAbsorb(beltH, absorbed, state.r, 1)
       /\ state.filled = Len(PartialTail(cur))
       /\ SubSeq(state.block, 1, state.filled) = PartialTail(cur)

\* a header that leaves one octet buffered, then two payload chunks
PhaseBoundaryPadWitness ==
  /\ args.fn = "Client" /\ ~fin /\ ~asserted /\ AssertsHeld
  /\ Len(trace) >= 3
  /\ LET n == Len(trace)
     IN /\ trace[n - 2] = Call("StepI", MaxChunk, TRUE)
        /\ trace[n - 1] = Call("StepA", 1, TRUE)
        /\ trace[n] = Call("StepA", MaxChunk, TRUE)
  /\ Len(hin) = MaxChunk /\ Len(ain) = MaxChunk + 1
  /\ state.filled = (MaxChunk + 1) % BlockLen

(***************************************************************************)
(* filled                                                                  *)
(***************************************************************************)
\* the call the client has just made (in an action)
Made == trace'[Len(trace')]

\* the client has just made a call that was not aborted
Called == args.fn = "Client" /\ trace' # trace /\ Made.ok

\* filled after the call, from filled before it: the octets received since
\* Start, the phase boundary or the finalization, modulo 16
FilledAfter ==
  CASE Made.op = "Start" -> 0
    [] Made.op = "StepI" -> (state.filled + Made.n) % BlockLen
    [] Made.op = "StepA" ->
         IF Made.n # 0 /\ state.len.hi = 0 THEN Made.n % BlockLen
         ELSE (state.filled + Made.n) % BlockLen
    [] Made.op \in {"StepE", "StepD"} -> state.filled
    [] Made.op \in {"StepG", "StepV"} -> 0

\* until finalization: the octets of the current phase, modulo 16
FilledIsPhaseCount ==
  (args.fn = "Client" /\ ~fin /\ AssertsHeld) =>
    state.filled = (IF Len(ain) > 0 THEN Len(ain) ELSE Len(hin)) % BlockLen

\* C15. Buffer-fill invariant.  filled is in 0..15 after Start and after
\* every call; until finalization, and while no call has run past its
\* assertion, it is the number of octets of the current phase modulo 16;
\* every call moves it as the count of received octets moves, and StepG and
\* StepV leave it 0.
BufferFill ==
  /\ [](args.fn = "Client" => state.filled \in 0..(BlockLen - 1))
  /\ []FilledIsPhaseCount
  /\ [][Called => state'.filled = FilledAfter]_vars

\* a chunk has completed the buffered block exactly
BufferFillWitness ==
  /\ args.fn = "Client" /\ ~fin /\ ~asserted /\ AssertsHeld
  /\ Len(trace) >= 2
  /\ trace[Len(trace) - 1] = Call("StepI", BlockLen - 1, TRUE)
  /\ trace[Len(trace)] = Call("StepI", 1, TRUE)
  /\ Len(hin) = BlockLen
  /\ state.filled = 0

(***************************************************************************)
(* len                                                                     *)
(***************************************************************************)
\* the halves of len count the bits given to StepI and to StepA since Start
LenIsBitCount ==
  args.fn = "Client" =>
    /\ state.len.lo = 8 * Len(hin)
    /\ state.len.hi = 8 * Len(ain)

\* the call just made is one whose assertion holds (line 75)
Accepted ==
  Called /\ (Made.op = "StepI" => (Made.n = 0 \/ beltHalfBlockIsZero(state.len.hi)))

\* what an accepted call does to len
LenFrame ==
  Accepted =>
    /\ Made.op = "StepI" =>
         /\ state'.len.hi = state.len.hi
         /\ state'.len.lo = state.len.lo + 8 * Made.n
    /\ Made.op = "StepA" =>
         /\ state'.len.lo = state.len.lo
         /\ state'.len.hi = state.len.hi + 8 * Made.n
    /\ Made.op \in {"StepE", "StepD"} => state'.len = state.len
    /\ state.len.hi # 0 => state'.len.lo <= state.len.lo

\* C16. Length counters.  The low half of len is 8 times the octets passed
\* to StepI and the high half 8 times the octets passed to StepA; StepI
\* leaves the high half, StepA the low half, StepE and StepD both; once the
\* high half is non-zero no accepted call makes the low half grow.
LengthCounters == []LenIsBitCount /\ [][LenFrame]_vars

\* both halves non-zero, and an empty StepI accepted after the payload
LengthCountersWitness ==
  /\ args.fn = "Client" /\ ~asserted
  /\ Len(trace) >= 3
  /\ LET n == Len(trace)
     IN /\ trace[n - 2] = Call("StepI", MaxChunk, TRUE)
        /\ trace[n - 1] = Call("StepA", BlockLen - 1, TRUE)
        /\ trace[n] = Call("StepI", 0, TRUE)
  /\ state.len = [lo |-> 8 * MaxChunk, hi |-> 8 * (BlockLen - 1)]

(***************************************************************************)
(* StepV against StepG                                                     *)
(***************************************************************************)
\* the macs tried on a state: the tag, the tag with its first or its last
\* bit flipped, and unrelated octets
ProbeMacs(tag) ==
  {tag, Data(MacLen, 3), FlipIn(tag, 1, 0), FlipIn(tag, MacLen, 7)}

\* C17 as stated, for the StepV calls the client makes: StepV returns TRUE
\* exactly for the tag StepG would have written, and leaves the t and the
\* filled that StepG would have left.
StepVLikeStepGOriginal ==
  [][(Called /\ Made.op = "StepV") =>
       LET g == beltDWPStepG(state)
       IN /\ ret' = "TRUE" <=> macbuf' = g.mac
          /\ state'.t = g.state.t
          /\ state'.filled = g.state.filled]_vars

\* C17, amended.  StepV accepts exactly the tag StepG writes, and both leave
\* the same state but for t: on the little-endian build t is the same, on
\* the big-endian build StepV leaves the words t[0] and t[1] byte-reversed.
StepVLikeStepG ==
  args.fn = "Client" =>
    LET g == beltDWPStepG(state)
    IN \A mac \in ProbeMacs(g.mac) :
         LET v == StepVBuilt(mac, state)
         IN /\ v.ok <=> mac = g.mac
            /\ v.state.filled = 0 /\ g.state.filled = 0
            /\ [v.state EXCEPT !.t = g.state.t] = g.state
            /\ v.state.t = IF args.order = "BIG_ENDIAN"
                            THEN u32RevT01(g.state.t) ELSE g.state.t

\* StepV of the big-endian build has accepted the tag of a header and a
\* payload, and t no longer starts with the tag
StepVLikeStepGWitness ==
  /\ args.fn = "Client" /\ args.order = "BIG_ENDIAN"
  /\ LastCall.op = "StepV" /\ ret = "TRUE"
  /\ Len(hin) > 0 /\ Len(ain) > 0
  /\ SubSeq(u32RevT01(state.t), 1, MacLen) = macbuf
  /\ SubSeq(state.t, 1, MacLen) # macbuf

(***************************************************************************)
(* Start on used storage                                                   *)
(***************************************************************************)
\* what a message gives from state s: StepI(h), StepE(p), StepA, StepG
MessageFrom(s, h, p) ==
  LET e == beltDWPStepE(p, beltDWPStepI(h, s))
      g == beltDWPStepG(beltDWPStepA(e.buf, e.state))
  IN [dest |-> e.buf, mac |-> g.mac, t |-> g.state.t]

ProbeHdr == Data(1, 2)
ProbePay == Data(1, 1)

\* the message on fresh storage, for each key length
FreshMessage ==
  [len \in StreamKeyLens |->
     MessageFrom(beltDWPStart(ZeroState, TestKey(len), len, TestIv(len)),
                 ProbeHdr, ProbePay)]

\* C18. Start (re)initializes the state.  Applied to whatever the storage
\* holds, beltDWPStart leaves r = E_K(iv), t = beltH, len = 0, filled = 0,
\* the counter at iv with no keystream buffered, and the message that
\* follows gives the ciphertext and the tag it gives on fresh storage.
StartReinitializes ==
  args.fn = "Client" =>
    \A len \in StreamKeyLens :
      LET key == TestKey(len)
          iv == TestIv(len)
          s1 == beltDWPStart(state, key, len, iv)
      IN /\ s1.r = beltBlockEncr(iv, beltKeyExpand(key, len))
         /\ s1.t = beltH
         /\ s1.len = [lo |-> 0, hi |-> 0]
         /\ s1.filled = 0
         /\ s1.ctr.ctr = iv /\ s1.ctr.reserved = 0
         /\ MessageFrom(s1, ProbeHdr, ProbePay) = FreshMessage[len]
         /\ (LastCall.op = "Start" /\ LastCall.n = len) => state = s1

\* Start under the other key on a state that was finalized with octets
\* left in block: the storage differs from fresh storage in block only
StartReinitializesWitness ==
  /\ args.fn = "Client" /\ Len(trace) >= 4
  /\ LastCall = Call("Start", 32, TRUE)
  /\ trace[Len(trace) - 1].op \in {"StepG", "StepV"}
  /\ trace[Len(trace) - 2] = Call("StepA", MaxChunk, TRUE)
  /\ state.block # ZeroBlock
  /\ [state EXCEPT !.block = ZeroBlock, !.ctr.block = ZeroBlock]
       = beltDWPStart(ZeroState, TestKey(32), 32, TestIv(32))

(***************************************************************************)
(* The hash part and the CTR part of the state                             *)
(***************************************************************************)
\* the state without its CTR part
HashPart(s) == [r |-> s.r, t |-> s.t, len |-> s.len, block |-> s.block, filled |-> s.filled]

\* what an accepted call leaves alone
StateFrame ==
  Called =>
    /\ Made.op # "Start" => state'.r = state.r
    /\ Made.op \in {"StepE", "StepD"} => HashPart(state') = HashPart(state)
    /\ Made.op \in {"StepI", "StepA", "StepG", "StepV"} => state'.ctr = state.ctr

\* no StepE and no StepD since the last Start
NoCtrStepYet ==
  \A j \in (LastStart(Len(trace)) + 1)..Len(trace) : trace[j].op \notin {"StepE", "StepD"}

\* until the first StepE or StepD the scheduled key, the counter and the
\* amount of buffered keystream are as Start left them, and StepD gives what
\* StepE gives on fresh storage right after Start
CtrUntouched ==
  (args.fn = "Client" /\ NoCtrStepYet) =>
    /\ state.ctr.key = StartedState.ctr.key
    /\ state.ctr.ctr = StartedState.ctr.ctr
    /\ state.ctr.reserved = 0
    /\ beltDWPStepD(ProbePay, state).buf = beltDWPStepE(ProbePay, StartedState).buf

\* C19. Frame conditions.  r is changed by beltDWPStart only; StepE and
\* StepD leave r, t, len, block and filled; StepI, StepA, StepG and StepV
\* leave the CTR part, so that the first StepE or StepD after them works on
\* the keystream of a StepE issued right after Start.
FrameConditions == []CtrUntouched /\ [][StateFrame]_vars

\* StepD after StepA and StepV has given what StepE gives right after Start
FrameConditionsWitness ==
  /\ args.fn = "Client" /\ ~asserted /\ Len(trace) >= 4
  /\ LET n == Len(trace)
     IN /\ trace[n - 3].op = "Start"
        /\ trace[n - 2] = Call("StepA", MaxChunk, TRUE)
        /\ trace[n - 1].op = "StepV"
        /\ trace[n] = Call("StepD", MaxChunk, TRUE)
  /\ out = beltDWPStepE(Data(MaxChunk, 1), StartedState).buf
  /\ out # Data(MaxChunk, 1)
  /\ state.r = StartedState.r

(***************************************************************************)
(* Calls with count = 0                                                    *)
(***************************************************************************)
\* StepI and StepA with count = 0 applied to the state
EmptyStepsKeepState ==
  args.fn = "Client" =>
    /\ beltDWPStepI_Assert(<<>>, state)
    /\ beltDWPStepI(<<>>, state) = state
    /\ beltDWPStepA(<<>>, state) = state

\* the empty calls the client makes
EmptyCallKeepsState ==
  (Called /\ Made.op \in {"StepI", "StepA"} /\ Made.n = 0) => state' = state

\* C20. Zero-length steps are no-ops.  StepI and StepA with count = 0 leave
\* the whole state as it is, in every state the client reaches; an empty
\* StepA does not end the header phase (while no payload octet has come the
\* high half of len is 0, so StepI is still accepted and appends to block).
ZeroLengthNoOp ==
  /\ []EmptyStepsKeepState
  /\ [](args.fn = "Client" /\ Len(ain) = 0 => state.len.hi = 0)
  /\ [][EmptyCallKeepsState]_vars

\* an empty StepA between two header chunks that together make one block
ZeroLengthNoOpWitness ==
  /\ args.fn = "Client" /\ ~asserted /\ ~fin /\ Len(trace) >= 3
  /\ LET n == Len(trace)
     IN /\ trace[n - 2] = Call("StepI", 1, TRUE)
        /\ trace[n - 1] = Call("StepA", 0, TRUE)
        /\ trace[n] = Call("StepI", BlockLen - 1, TRUE)
  /\ Len(hin) = BlockLen /\ Len(ain) = 0
  /\ state.filled = 0
  /\ state.t = RefAbsorb(beltH, <<hin>>, state.r, 1)

(***************************************************************************)
(* C21: what the accumulator is fed determines the message                 *)
(***************************************************************************)
\* the number whose octets, least significant first, are x
RECURSIVE OctetsValue(_)
OctetsValue(x) ==
  IF x = <<>> THEN 0 ELSE x[1] + OctetMod * OctetsValue(SubSeq(x, 2, Len(x)))

RECURSIVE Flatten(_)
Flatten(blocks) ==
  IF blocks = <<>> THEN <<>> ELSE blocks[1] \o Flatten(SubSeq(blocks, 2, Len(blocks)))

BlocksFor(n) == (n + BlockLen - 1) \div BlockLen

\* the message read back from a sequence of absorbed blocks: the last block
\* gives the two bit counts, the blocks before it the header and then the
\* data, each zero-padded to whole blocks
Decode(blocks) ==
  IF blocks = <<>> THEN <<"none">>
  ELSE LET last == blocks[Len(blocks)]
           nh == OctetsValue(SubSeq(last, 1, 8)) \div 8
           nc == OctetsValue(SubSeq(last, 9, BlockLen)) \div 8
           kh == BlocksFor(nh)
           kc == BlocksFor(nc)
       IN IF Len(blocks) # kh + kc + 1 THEN <<"none">>
          ELSE <<SubSeq(Flatten(SubSeq(blocks, 1, kh)), 1, nh),
                 SubSeq(Flatten(SubSeq(blocks, kh + 1, kh + kc)), 1, nc)>>

FinalCalls == Cardinality({i \in DOMAIN trace : trace[i].op = "StepG"})

\* the call sequence StepG, StepI(LenOctet), StepG after Start and what it feeds
OtherMessage == <<LenOctet, <<>>>>
OtherAbsorbed ==
  beltDWPStepG(beltDWPStepI(LenOctet, beltDWPStepG(AbsorbStart).state)).state.absorbed

\* the client has made that call sequence
OtherSequenceMade ==
  /\ args.fn = "Absorb"
  /\ trace = <<Call("StepG", MacLen, TRUE), Call("StepI", 1, TRUE), Call("StepG", MacLen, TRUE)>>
  /\ <<hin, ain>> = OtherMessage
  /\ state.absorbed = OtherAbsorbed

\* C21 as stated, for any accepted call sequence and the accepted sequence
\* StepG, StepI(LenOctet), StepG: if the two feed the same blocks and the same
\* final length block into t, their (header, data) pairs are equal.
UnambiguousOriginal ==
  (/\ args.fn = "Absorb" /\ trace # <<>> /\ LastCall.op = "StepG"
   /\ state.absorbed = OtherAbsorbed)
  => <<hin, ain>> = OtherMessage

\* C21. Unambiguous hash input, for call sequences after Start in which
\* StepG is the last call and the only StepG: (header, data) is a function
\* of the blocks absorbed into t, final length block included (Decode reads
\* it back), so two such sequences with different (header, data) pairs feed
\* different block sequences.  Before StepG is called the same holds of what
\* a StepG called now would have fed.
Unambiguous ==
  args.fn = "Absorb" =>
    /\ ~fin => Decode(beltDWPStepG(state).state.absorbed) = <<hin, ain>>
    /\ (FinalCalls = 1 /\ LastCall.op = "StepG") => Decode(state.absorbed) = <<hin, ain>>

\* a zero octet of header that ends in a padded block, data over a block
\* boundary, then StepG: four blocks are fed and read back
UnambiguousWitness ==
  /\ args.fn = "Absorb" /\ FinalCalls = 1 /\ LastCall.op = "StepG"
  /\ hin = Data(1, 0) /\ Len(ain) > BlockLen
  /\ Len(state.absorbed) = 4
  /\ state.absorbed[1] = ZeroBlock
  /\ Decode(state.absorbed) = <<hin, ain>>

====
